---------------------------- MODULE Spec2Model ----------------------------
(***************************************************************************)
(* Model of the Spack recipes var/spack/repos/builtin/packages/erf and     *)
(* .../remora: the constraint generator process_amrex_constraints, the     *)
(* class bodies that consume it, and the build-time methods cmake_args and *)
(* libs.                                                                   *)
(*                                                                         *)
(* A Python string is modelled as the sequence of its lexical atoms, so    *)
(* that '+' + 'mpi' is <<"+", "mpi">> and string concatenation is \o.      *)
(***************************************************************************)
EXTENDS Integers, Sequences, FiniteSets, TLC

VARIABLES
    cuda_arch_values,   \* CudaPackage.cuda_arch_values, an ordered tuple of tags
    gen,                \* frame of each live generator object
    out,                \* what each generator object has yielded so far
    bases,              \* the tuples k each generator's for loop has bound so far
    pkg,                \* "Erf" or "Remora"
    pc,                 \* index of the next class-body statement
    loopGen,            \* frame of the generator the current for loop iterates
    versions,           \* version(...) calls made so far
    variants,           \* variants declared so far: name -> [default, values]
    conflictDecls,      \* conflicts(...) calls made so far
    dependencies,       \* depends_on(...) calls made so far
    spec,               \* self.spec: the configuration being built
    conflictsHit,       \* declared conflicts that spec matches
    phase,              \* where the build of spec stands
    args,               \* what cmake_args returned
    libsResult          \* what the libs property returned or raised

genVars   == <<cuda_arch_values, gen, out, bases>>
bodyVars  == <<pkg, pc, loopGen, versions, variants, conflictDecls, dependencies>>
buildVars == <<spec, conflictsHit, phase, args, libsResult>>
vars      == <<genVars, bodyVars, buildVars>>

-----------------------------------------------------------------------------
(* Bounds *)

\* longest architecture tuple explored
MaxArch == 2
\* number of generator objects alive at once
NGen == 2

\* architecture tags the tuples are drawn from
ArchTags == {"60", "70", "80"}

RECURSIVE SeqsUpTo(_, _)
SeqsUpTo(S, n) ==
    IF n = 0 THEN {<<>>}
    ELSE LET shorter == SeqsUpTo(S, n - 1)
         IN  shorter \cup {Append(s, x) : s \in shorter, x \in S}

ArchTuples == SeqsUpTo(ArchTags, MaxArch)

-----------------------------------------------------------------------------
(* process_amrex_constraints *)

a1 == <<"+", "~">>
a2 == <<"mpi", "cuda">>

\* [[x + y for x in a1] for y in a2]
a3 == [y \in 1..Len(a2) |-> [x \in 1..Len(a1) |-> <<a1[x]>> \o <<a2[y]>>]]

\* product with the leftmost list advancing fastest
RECURSIVE ProductLeftFast(_)
ProductLeftFast(lists) ==
    IF lists = <<>> THEN << <<>> >>
    ELSE LET rest == ProductLeftFast(Tail(lists))
             m    == Len(lists[1])
         IN  [i \in 1..(m * Len(rest)) |->
                 <<lists[1][((i - 1) % m) + 1]>> \o rest[((i - 1) \div m) + 1]]

\* itertools.product(*lists): tuples in odometer order, rightmost fastest
RECURSIVE Product(_)
Product(lists) ==
    IF lists = <<>> THEN << <<>> >>
    ELSE LET rest == Product(Tail(lists))
             n    == Len(rest)
         IN  [i \in 1..(Len(lists[1]) * n) |->
                 <<lists[1][((i - 1) \div n) + 1]>> \o rest[((i - 1) % n) + 1]]

\* ''.join(k)
RECURSIVE Join(_)
Join(k) == IF k = <<>> THEN <<>> ELSE k[1] \o Join(Tail(k))

\* x in k, for a tuple k
In(x, k) == \E i \in 1..Len(k) : k[i] = x

PlusCuda == <<"+", "cuda">>

\* frame of a generator object that has not been resumed yet
StartFrame == [pc |-> "start", ki |-> 0, ai |-> 0]

\* Enter with the test of line 33 made on the wrong token
RECURSIVE EnterMpi(_, _)
EnterMpi(ki, A) ==
    LET P == Product(a3)
    IN  IF ki > Len(P) THEN [pc |-> "done", ki |-> ki, ai |-> 0]
        ELSE IF In(<<"+", "mpi">>, P[ki])
             THEN IF Len(A) >= 1 THEN [pc |-> "arch", ki |-> ki, ai |-> 1]
                                 ELSE EnterMpi(ki + 1, A)
             ELSE [pc |-> "base", ki |-> ki, ai |-> 0]

\* Enter falling back to the bare join when there is no architecture
RECURSIVE EnterBare(_, _)
EnterBare(ki, A) ==
    LET P == Product(a3)
    IN  IF ki > Len(P) THEN [pc |-> "done", ki |-> ki, ai |-> 0]
        ELSE IF In(PlusCuda, P[ki]) /\ Len(A) >= 1
             THEN [pc |-> "arch", ki |-> ki, ai |-> 1]
             ELSE [pc |-> "base", ki |-> ki, ai |-> 0]

\* The for loop over the product binds its ki-th tuple and runs to the next
\* yield: the first architecture (line 35), the bare join (line 37), or, when
\* the inner loop has nothing to iterate, on to the following tuple.
RECURSIVE Enter(_, _)
Enter(ki, A) ==
    LET P == Product(a3)
    IN  IF ki > Len(P) THEN [pc |-> "done", ki |-> ki, ai |-> 0]
        ELSE IF In(PlusCuda, P[ki])
             THEN IF Len(A) >= 1 THEN [pc |-> "arch", ki |-> ki, ai |-> 1]
                                 ELSE Enter(ki + 1, A)
             ELSE [pc |-> "base", ki |-> ki, ai |-> 0]

\* Resume leaving the architecture loop after its first item
ResumeShort(f, A) ==
    CASE f.pc = "start" -> Enter(1, A)
      [] f.pc = "arch"  -> Enter(f.ki + 1, A)
      [] f.pc = "base"  -> Enter(f.ki + 1, A)
      [] OTHER          -> f

\* next() on a generator suspended in frame f
Resume(f, A) ==
    CASE f.pc = "start" -> Enter(1, A)
      [] f.pc = "arch"  -> IF f.ai < Len(A) THEN [f EXCEPT !.ai = f.ai + 1]
                                            ELSE Enter(f.ki + 1, A)
      [] f.pc = "base"  -> Enter(f.ki + 1, A)
      [] OTHER          -> f

\* the value of the yield expression the generator is suspended at
Yielded(f, A) ==
    IF f.pc = "arch" THEN Join(Product(a3)[f.ki]) \o <<" cuda_arch=", A[f.ai]>>
                     ELSE Join(Product(a3)[f.ki])

\* the tuples the for loop binds between two frames
Bound(f, g) ==
    LET P  == Product(a3)
        hi == IF g.ki > Len(P) THEN Len(P) ELSE g.ki
    IN  [i \in 1..(hi - f.ki) |-> P[f.ki + i]]

\* every generator object running on the first one's locals
SharedFrame(g) == gen[1]

\* the frame a call on generator object g operates on: its own locals
LocalFrame(g) == gen[g]

\* next(g): run generator g to its next yield or to exhaustion
GenNext(g) ==
    LET f == Resume(LocalFrame(g), cuda_arch_values)
    IN  /\ gen[g].pc # "done"
        /\ gen' = [gen EXCEPT ![g] = f]
        /\ out' = [out EXCEPT ![g] =
                     IF f.pc = "done" THEN @
                     ELSE Append(@, Yielded(f, cuda_arch_values))]
        /\ bases' = [bases EXCEPT ![g] = @ \o Bound(gen[g], f)]
        /\ UNCHANGED <<cuda_arch_values, bodyVars, buildVars>>

\* process_amrex_constraints() again: a fresh generator object replaces g
GenCall(g) ==
    /\ gen[g].pc # "start"
    /\ gen' = [gen EXCEPT ![g] = StartFrame]
    /\ out' = [out EXCEPT ![g] = <<>>]
    /\ bases' = [bases EXCEPT ![g] = <<>>]
    /\ UNCHANGED <<cuda_arch_values, bodyVars, buildVars>>

NoBody ==
    /\ pkg = "Erf"
    /\ pc = 0
    /\ loopGen = StartFrame
    /\ versions = <<>>
    /\ variants = <<>>
    /\ conflictDecls = <<>>
    /\ dependencies = <<>>

NoBuild ==
    /\ spec = <<>>
    /\ conflictsHit = {}
    /\ phase = "none"
    /\ args = <<>>
    /\ libsResult = <<>>

InitGen ==
    /\ cuda_arch_values \in ArchTuples
    /\ gen = [g \in 1..NGen |-> StartFrame]
    /\ out = [g \in 1..NGen |-> <<>>]
    /\ bases = [g \in 1..NGen |-> <<>>]
    /\ NoBody
    /\ NoBuild

NextGen == \E g \in 1..NGen : GenNext(g) \/ GenCall(g)

SpecGen == InitGen /\ [][NextGen]_vars

-----------------------------------------------------------------------------
(* The class bodies of Erf and Remora *)

Packages == {"Erf", "Remora"}

Bool == {TRUE, FALSE}

VersionStmt(n) == [op |-> "version", name |-> n]

VariantStmt(n, d, v) == [op |-> "variant", name |-> n, default |-> d, values |-> v]

ConflictsStmt(c, w, m) == [op |-> "conflicts", spec |-> c, when |-> w, msg |-> m]

DependsStmt(d, w, t) == [op |-> "depends_on", spec |-> d, when |-> w, type |-> t]

ForStmt == [op |-> "for"]

\* the version(...) directives that open each class
VersionStmts(p) ==
    IF p = "Erf" THEN <<VersionStmt("develop"), VersionStmt("24.05")>>
                 ELSE <<VersionStmt("development"), VersionStmt("develop")>>

\* the directives from "# Config options" to the end of the class, the same
\* in both recipes
CommonStmts ==
    << VariantStmt("dimensions", "3", {"2", "3"}),
       VariantStmt("shared", FALSE, Bool),
       VariantStmt("mpi", TRUE, Bool),
       VariantStmt("openmp", FALSE, Bool),
       VariantStmt("precision", "double", {"single", "double"}),
       VariantStmt("eb", FALSE, Bool),
       VariantStmt("fortran", FALSE, Bool),
       VariantStmt("hdf5", FALSE, Bool),
       VariantStmt("tests", TRUE, Bool),
       VariantStmt("netcdf", TRUE, Bool),
       VariantStmt("internal-amrex", TRUE, Bool),
       VariantStmt("fortran", FALSE, Bool),
       ConflictsStmt(<<"+", "openmp">>, <<"+", "cuda">>, ""),
       DependsStmt(<<"amrex">>, <<>>, "default"),
       DependsStmt(<<"mpi">>, <<"+", "mpi">>, "default"),
       ForStmt,
       DependsStmt(<<"netcdf-c">>, <<"+", "netcdf">>, "default"),
       DependsStmt(<<"mpi">>, <<"+", "mpi">>, "default"),
       DependsStmt(<<"cuda", "@9.0.0:">>, <<"+", "cuda">>, "default"),
       DependsStmt(<<"python", "@2.7:">>, <<"@:20.04">>, "build"),
       DependsStmt(<<"cmake", "@3.5:">>, <<"@:18.10.99">>, "build"),
       DependsStmt(<<"cmake", "@3.13:">>, <<"@18.11:">>, "build"),
       DependsStmt(<<"cmake", "@3.14:">>, <<"@19.04:">>, "build"),
       DependsStmt(<<"cmake", "@3.17:">>, <<"^cuda", " ", "@11:">>, "build"),
       DependsStmt(<<"hdf5", "@1.10.4:", " ", "+", "mpi">>, <<"+", "hdf5">>, "default"),
       DependsStmt(<<"rocrand">>, <<"+", "rocm">>, "build"),
       DependsStmt(<<"rocprim">>, <<"@21.05:", " ", "+", "rocm">>, "build"),
       ConflictsStmt(<<"%gcc", "@8.1.0:8.3.0">>, <<"@21.03">>, ""),
       ConflictsStmt(<<"%gcc", "@8.1.0:8.2.0">>, <<"@21.01:21.02">>, ""),
       ConflictsStmt(<<"+", "cuda">>, <<"+", "rocm">>,
                     "CUDA and HIP support are exclusive"),
       ForStmt,
       DependsStmt(<<"netcdf-c">>, <<"+", "netcdf">>, "default") >>

Body(p) == VersionStmts(p) \o CommonStmts

\* variants the base classes CudaPackage and ROCmPackage bring to the class
InheritedVariants ==
    [n \in {"cuda", "cuda_arch", "rocm"} |->
        IF n = "cuda_arch" THEN [default |-> <<"none">>, values |-> "any_combination_of"]
                           ELSE [default |-> FALSE, values |-> Bool]]

\* variant(name, default=..., values=...): a later declaration replaces an
\* earlier one of the same name
DeclareVariant(vs, st) ==
    [n \in DOMAIN vs \cup {st.name} |->
        IF n = st.name THEN [default |-> st.default, values |-> st.values]
                       ELSE vs[n]]

\* dopt = '+particles' + opt
Dopt(opt) == <<"+", "particles">> \o opt

\* the loop's depends_on with the condition not narrowed by opt
AmrexDependencyAnyOpt(opt) ==
    [spec |-> <<"amrex", "@develop">> \o Dopt(opt),
     when |-> <<"~", "internal-amrex">>,
     type |-> "default"]

\* depends_on('amrex@develop' + dopt, when='~internal-amrex' + opt)
AmrexDependency(opt) ==
    [spec |-> <<"amrex", "@develop">> \o Dopt(opt),
     when |-> <<"~", "internal-amrex">> \o opt,
     type |-> "default"]

\* a depends_on call as recorded: what was declared and by which statement
Declared(d, at) == [spec |-> d.spec, when |-> d.when, type |-> d.type, at |-> at]

InBody == pc \in 1..Len(Body(pkg))

Stmt == Body(pkg)[pc]

ExecVersion ==
    /\ InBody /\ Stmt.op = "version"
    /\ versions' = Append(versions, Stmt.name)
    /\ pc' = pc + 1
    /\ UNCHANGED <<pkg, loopGen, variants, conflictDecls, dependencies>>
    /\ UNCHANGED <<genVars, buildVars>>

ExecVariant ==
    /\ InBody /\ Stmt.op = "variant"
    /\ variants' = DeclareVariant(variants, Stmt)
    /\ pc' = pc + 1
    /\ UNCHANGED <<pkg, loopGen, versions, conflictDecls, dependencies>>
    /\ UNCHANGED <<genVars, buildVars>>

ExecConflicts ==
    /\ InBody /\ Stmt.op = "conflicts"
    /\ conflictDecls' = Append(conflictDecls,
                               [spec |-> Stmt.spec, when |-> Stmt.when, msg |-> Stmt.msg])
    /\ pc' = pc + 1
    /\ UNCHANGED <<pkg, loopGen, versions, variants, dependencies>>
    /\ UNCHANGED <<genVars, buildVars>>

ExecDependsOn ==
    /\ InBody /\ Stmt.op = "depends_on"
    /\ dependencies' = Append(dependencies, Declared(Stmt, pc))
    /\ pc' = pc + 1
    /\ UNCHANGED <<pkg, loopGen, versions, variants, conflictDecls>>
    /\ UNCHANGED <<genVars, buildVars>>

\* for opt in process_amrex_constraints(): one more opt, and the loop body
ForBody ==
    LET f == Resume(loopGen, cuda_arch_values)
    IN  /\ InBody /\ Stmt.op = "for"
        /\ f.pc # "done"
        /\ loopGen' = f
        /\ dependencies' = Append(dependencies,
               Declared(AmrexDependency(Yielded(f, cuda_arch_values)), pc))
        /\ UNCHANGED <<pkg, pc, versions, variants, conflictDecls>>
        /\ UNCHANGED <<genVars, buildVars>>

\* for opt in process_amrex_constraints(): the generator is exhausted
ForExit ==
    LET f == Resume(loopGen, cuda_arch_values)
    IN  /\ InBody /\ Stmt.op = "for"
        /\ f.pc = "done"
        /\ loopGen' = StartFrame
        /\ pc' = pc + 1
        /\ UNCHANGED <<pkg, versions, variants, conflictDecls, dependencies>>
        /\ UNCHANGED <<genVars, buildVars>>

NoGen ==
    /\ gen = [g \in 1..NGen |-> StartFrame]
    /\ out = [g \in 1..NGen |-> <<>>]
    /\ bases = [g \in 1..NGen |-> <<>>]

InitBody ==
    /\ cuda_arch_values \in ArchTuples
    /\ NoGen
    /\ pkg \in Packages
    /\ pc = 1
    /\ loopGen = StartFrame
    /\ versions = <<>>
    /\ variants = InheritedVariants
    /\ conflictDecls = <<>>
    /\ dependencies = <<>>
    /\ NoBuild

NextBody ==
    \/ ExecVersion
    \/ ExecVariant
    \/ ExecConflicts
    \/ ExecDependsOn
    \/ ForBody
    \/ ForExit

SpecBody == InitBody /\ [][NextBody]_vars

-----------------------------------------------------------------------------
(* The class once its body has run *)

RECURSIVE VersionsOf(_)
VersionsOf(stmts) ==
    IF stmts = <<>> THEN <<>>
    ELSE IF Head(stmts).op = "version"
         THEN <<Head(stmts).name>> \o VersionsOf(Tail(stmts))
         ELSE VersionsOf(Tail(stmts))

RECURSIVE VariantsOf(_, _)
VariantsOf(stmts, acc) ==
    IF stmts = <<>> THEN acc
    ELSE IF Head(stmts).op = "variant"
         THEN VariantsOf(Tail(stmts), DeclareVariant(acc, Head(stmts)))
         ELSE VariantsOf(Tail(stmts), acc)

RECURSIVE ConflictsOf(_)
ConflictsOf(stmts) ==
    IF stmts = <<>> THEN <<>>
    ELSE IF Head(stmts).op = "conflicts"
         THEN <<[spec |-> Head(stmts).spec, when |-> Head(stmts).when,
                 msg |-> Head(stmts).msg]>> \o ConflictsOf(Tail(stmts))
         ELSE ConflictsOf(Tail(stmts))

\* list(process_amrex_constraints()), from frame f on
RECURSIVE Drain(_, _)
Drain(f, A) ==
    LET f2 == Resume(f, A)
    IN  IF f2.pc = "done" THEN <<>> ELSE <<Yielded(f2, A)>> \o Drain(f2, A)

RECURSIVE DependenciesOf(_, _, _)
DependenciesOf(stmts, at, A) ==
    IF stmts = <<>> THEN <<>>
    ELSE LET rest == DependenciesOf(Tail(stmts), at + 1, A)
             opts == Drain(StartFrame, A)
         IN  CASE Head(stmts).op = "depends_on" ->
                    <<Declared(Head(stmts), at)>> \o rest
               [] Head(stmts).op = "for" ->
                    [i \in 1..Len(opts) |-> Declared(AmrexDependency(opts[i]), at)]
                    \o rest
               [] OTHER -> rest

\* the state the class body leaves behind
BodyDone(p, A) ==
    /\ pkg = p
    /\ pc = Len(Body(p)) + 1
    /\ loopGen = StartFrame
    /\ versions = VersionsOf(Body(p))
    /\ variants = VariantsOf(Body(p), InheritedVariants)
    /\ conflictDecls = ConflictsOf(Body(p))
    /\ dependencies = DependenciesOf(Body(p), 1, A)

-----------------------------------------------------------------------------
(* Configurations: the concrete specs a build is run for *)

\* most values a single configuration selects for cuda_arch
MaxSelect == 1

\* the architecture enumeration the builds are run against
ArchList == <<"60", "70", "80">>

\* variants no modelled method or conflict reads: left at their defaults
Unread == {"precision", "eb", "hdf5"}

Compilers == {[name |-> "gcc", version |-> 80200], [name |-> "gcc", version |-> 120100]}

\* strictly increasing selections of up to n architectures
RECURSIVE Selections(_, _)
Selections(A, n) ==
    IF n = 0 THEN {<<>>}
    ELSE LET shorter == Selections(A, n - 1)
         IN  shorter \cup
             {Append(s, A[i]) : s \in shorter, i \in 1..Len(A)}

Increasing(s, A) ==
    \A i \in 1..(Len(s) - 1) :
        \E a, b \in 1..Len(A) : a < b /\ A[a] = s[i] /\ A[b] = s[i + 1]

\* values of cuda_arch: 'none' alone, or a non-empty combination of tags
CudaArchChoices(A) ==
    {<<"none">>} \cup {s \in Selections(A, MaxSelect) : s # <<>> /\ Increasing(s, A)}

ValuesOf(n, A) ==
    CASE n \in Unread      -> {variants[n].default}
      [] n = "cuda_arch"   -> CudaArchChoices(A)
      [] OTHER             -> variants[n].values

\* every way of giving each variant of names one of its values
RECURSIVE Assignments(_, _)
Assignments(names, A) ==
    IF names = {} THEN {[n \in {} |-> FALSE]}
    ELSE LET n == CHOOSE x \in names : TRUE
         IN  {[m \in DOMAIN f \cup {n} |-> IF m = n THEN v ELSE f[m]] :
                 f \in Assignments(names \ {n}, A), v \in ValuesOf(n, A)}

\* a concrete spec of the package: a version, a compiler, a value per variant;
\* cuda_arch is 'none' unless +cuda
Configs(A) ==
    {[version |-> v, compiler |-> c, variants |-> vv] :
        v \in {versions[i] : i \in 1..Len(versions)},
        c \in Compilers,
        vv \in {f \in Assignments(DOMAIN variants, A) :
                   ~f["cuda"] => f["cuda_arch"] = <<"none">>}}

-----------------------------------------------------------------------------
(* Matching a spec against the constraint of a conflicts directive *)

\* release versions as year * 100 + month; branch versions carry no number
VersionNumber(v) == IF v = "24.05" THEN 2405 ELSE -1

\* the closed range a version or compiler-version constraint denotes
Range(atom) ==
    CASE atom = "@21.03"        -> [lo |-> 2103, hi |-> 2103]
      [] atom = "@21.01:21.02"  -> [lo |-> 2101, hi |-> 2102]
      [] atom = "@8.1.0:8.3.0"  -> [lo |-> 80100, hi |-> 80300]
      [] atom = "@8.1.0:8.2.0"  -> [lo |-> 80100, hi |-> 80200]

InRange(n, atom) == n >= Range(atom).lo /\ n <= Range(atom).hi

IsRange(atom) == atom \in {"@21.03", "@21.01:21.02", "@8.1.0:8.3.0", "@8.1.0:8.2.0"}

\* sp satisfies the constraint c: every +v / ~v, @version and %compiler in it
Satisfies(sp, c) ==
    \A i \in 1..Len(c) :
        CASE c[i] \in {"+", "~"} ->
                 /\ c[i + 1] \in DOMAIN sp.variants
                 /\ sp.variants[c[i + 1]] = (c[i] = "+")
          [] c[i] = "%gcc" ->
                 /\ sp.compiler.name = "gcc"
                 /\ InRange(sp.compiler.version, c[i + 1])
          [] IsRange(c[i]) /\ ~(i > 1 /\ c[i - 1] = "%gcc") ->
                 InRange(VersionNumber(sp.version), c[i])
          [] OTHER -> TRUE

\* a conflict matching on its conflicting spec alone, whatever its condition
MatchesAlways(sp, c) == Satisfies(sp, c.spec)

\* conflicts(spec, when=...): sp is in conflict when it satisfies both
Matches(sp, c) == Satisfies(sp, c.when) /\ Satisfies(sp, c.spec)

-----------------------------------------------------------------------------
(* cmake_args and libs *)

Prefix == IF pkg = "Erf" THEN "ERF" ELSE "REMORA"

\* v.upper()
Upper(v) ==
    CASE v = "mpi"     -> "MPI"
      [] v = "cuda"    -> "CUDA"
      [] v = "openmp"  -> "OPENMP"
      [] v = "netcdf"  -> "NETCDF"
      [] v = "tests"   -> "TESTS"
      [] v = "fortran" -> "FORTRAN"

\* self.define(name, value)
Define(name, value) == [name |-> name, value |-> value]

\* self.define_from_variant(name, variant)
DefineFromVariant(name, v) ==
    IF v \in DOMAIN spec.variants THEN Define(name, spec.variants[v])
                                  ELSE [error |-> "KeyError", key |-> v]

\* float(i if i != "none" else 10.0)
Float(i) ==
    CASE i = "none" -> 10
      [] i = "60"   -> 60
      [] i = "70"   -> 70
      [] i = "80"   -> 80

\* '{0:.1f}'.format(x / 10.0)
FormatTenth(x) == <<x \div 10, ".", x % 10>>

vs == <<"mpi", "cuda", "openmp", "netcdf", "tests", "fortran">>

\* the internal-amrex branch emitting the same definitions either way
InternalAmrexArgsFixed ==
    <<Define(<<Prefix, "_USE_INTERNAL_AMREX">>, TRUE)>>

\* if '+internal-amrex' in self.spec: ... else: ...
InternalAmrexArgs ==
    IF spec.variants["internal-amrex"]
    THEN <<Define(<<Prefix, "_USE_INTERNAL_AMREX">>, TRUE)>>
    ELSE <<Define(<<Prefix, "_USE_INTERNAL_AMREX">>, FALSE),
           Define(<<"AMReX_ROOT">>, <<"spec['amrex'].prefix">>)>>

\* if '+cuda' in self.spec: ... args.append(define('AMReX_CUDA_ARCH', ...))
CudaArchArgs ==
    IF spec.variants["cuda"]
    THEN LET value == spec.variants["cuda_arch"]
             amrex_arch == [i \in 1..Len(value) |-> FormatTenth(Float(value[i]))]
         IN  IF amrex_arch # <<>>
             THEN <<Define(<<"AMReX_CUDA_ARCH">>, amrex_arch)>>
             ELSE <<>>
    ELSE <<>>

cmake_args ==
    [i \in 1..Len(vs) |->
        DefineFromVariant(<<Prefix, "_ENABLE_", Upper(vs[i])>>, vs[i])]
    \o <<Define(<<"CMAKE_EXPORT_COMPILE_COMMANDS">>, TRUE),
         Define(<<Prefix, "_ENABLE_ALL_WARNINGS">>, TRUE),
         DefineFromVariant(<<"BUILD_SHARED_LIBS">>, "shared"),
         DefineFromVariant(<<Prefix, "_TEST_WITH_FCOMPARE">>, "tests")>>
    \o CudaArchArgs
    \o InternalAmrexArgs

libsuffix == [d \in {"2", "3", "rz"} |->
                 CASE d = "2" -> "2d" [] d = "3" -> "3d" [] d = "rz" -> "rz"]

\* the libs property: the variant lookup, then find_libraries
libs ==
    IF "dims" \in DOMAIN spec.variants
    THEN [status |-> "found",
          names |-> << <<"liberf.", libsuffix[spec.variants["dims"]]>> >>,
          shared |-> TRUE, recursive |-> TRUE]
    ELSE [status |-> "KeyError", key |-> "dims"]

\* the concretizer settles on a spec and checks it against the conflicts
Concretize ==
    /\ phase = "class"
    /\ \E sp \in Configs(cuda_arch_values) :
          LET hit == {i \in 1..Len(conflictDecls) : Matches(sp, conflictDecls[i])}
          IN  /\ spec' = sp
              /\ conflictsHit' = hit
              /\ phase' = IF hit = {} THEN "concrete" ELSE "conflict"
    /\ UNCHANGED <<args, libsResult, genVars, bodyVars>>

CmakeArgs ==
    /\ phase = "concrete"
    /\ args' = cmake_args
    /\ phase' = "configured"
    /\ UNCHANGED <<spec, conflictsHit, libsResult, genVars, bodyVars>>

Libs ==
    /\ phase = "configured"
    /\ libsResult' = libs
    /\ phase' = "installed"
    /\ UNCHANGED <<spec, conflictsHit, args, genVars, bodyVars>>

InitBuild ==
    /\ cuda_arch_values = ArchList
    /\ NoGen
    /\ \E p \in Packages : BodyDone(p, ArchList)
    /\ spec = <<>>
    /\ conflictsHit = {}
    /\ phase = "class"
    /\ args = <<>>
    /\ libsResult = <<>>

NextBuild == Concretize \/ CmakeArgs \/ Libs

SpecBuild == InitBuild /\ [][NextBuild]_vars

-----------------------------------------------------------------------------
(* Properties of process_amrex_constraints, checked under SpecGen *)

IsPrefix(s, t) == Len(s) <= Len(t) /\ \A i \in 1..Len(s) : s[i] = t[i]

StartsWith(s, b) == IsPrefix(b, s)

\* b occurs in s as a contiguous run of atoms
HasSub(s, b) ==
    \E i \in 0..(Len(s) - Len(b)) : \A j \in 1..Len(b) : s[i + j] = b[j]

\* the strings of o that were emitted for base combination b
EmittedFor(o, b) == LET T(s) == StartsWith(s, b) IN SelectSeq(o, T)

Exhausted(g) == gen[g].pc = "done"

RECURSIVE Pow2(_)
Pow2(n) == IF n = 0 THEN 1 ELSE 2 * Pow2(n - 1)

Max(a, b) == IF a >= b THEN a ELSE b

PP == <<"+", "mpi", "+", "cuda">>
PT == <<"+", "mpi", "~", "cuda">>
TP == <<"~", "mpi", "+", "cuda">>
TT == <<"~", "mpi", "~", "cuda">>

\* C1: the for loop binds exactly the four base combinations +mpi+cuda,
\* +mpi~cuda, ~mpi+cuda, ~mpi~cuda, in that order, each tuple holding one
\* polarity-prefixed token per feature, mpi first and cuda second.
C1_FourBasesInOrder ==
    \A g \in 1..NGen :
        LET joined == [i \in 1..Len(bases[g]) |-> Join(bases[g][i])]
        IN  /\ IsPrefix(joined, <<PP, PT, TP, TT>>)
            /\ Exhausted(g) => joined = <<PP, PT, TP, TT>>
            /\ \A i \in 1..Len(bases[g]) :
                  /\ Len(bases[g][i]) = 2
                  /\ \E x \in {"+", "~"} : bases[g][i][1] = <<x, "mpi">>
                  /\ \E x \in {"+", "~"} : bases[g][i][2] = <<x, "cuda">>

C1_Witness ==
    \E g \in 1..NGen : Exhausted(g) /\ Len(bases[g]) = 4 /\ Len(cuda_arch_values) = 2

\* C2: a +cuda base combination is emitted once per architecture tag, in the
\* order of the tuple, as the base followed by " cuda_arch=" and the tag.
C2_OnePerArch ==
    \A g \in 1..NGen : \A b \in {PP, TP} :
        LET want == [i \in 1..Len(cuda_arch_values) |->
                        b \o <<" cuda_arch=", cuda_arch_values[i]>>]
            got  == EmittedFor(out[g], b)
        IN  /\ IsPrefix(got, want)
            /\ Exhausted(g) => got = want
            /\ \A i \in 1..Len(got) : got[i][Len(got[i])] = cuda_arch_values[i]

C2_Witness ==
    \E g \in 1..NGen :
        /\ Exhausted(g)
        /\ Len(cuda_arch_values) = 2
        /\ cuda_arch_values[1] # cuda_arch_values[2]
        /\ Len(EmittedFor(out[g], TP)) = 2

\* C3: a ~cuda base combination is emitted exactly once, bare, whatever the
\* architecture tuple is, and a " cuda_arch=" clause appears only in strings
\* that contain +cuda.
C3_BareWhenDisabled ==
    \A g \in 1..NGen :
        /\ \A b \in {PT, TT} :
              /\ IsPrefix(EmittedFor(out[g], b), <<b>>)
              /\ Exhausted(g) => EmittedFor(out[g], b) = <<b>>
        /\ \A i \in 1..Len(out[g]) :
              HasSub(out[g][i], <<" cuda_arch=">>) => HasSub(out[g][i], PlusCuda)

C3_Witness ==
    \E g \in 1..NGen :
        /\ Exhausted(g)
        /\ Len(cuda_arch_values) = 2
        /\ EmittedFor(out[g], PT) = <<PT>>
        /\ EmittedFor(out[g], TT) = <<TT>>

\* C4: a full run emits 2^(|F|-1) * |A| + 2^(|F|-1) strings, which is at most
\* 2^|F| * max(1, |A|), and the generator is exhausted by the next() after
\* the last of them and not before.
C4_TotalCount ==
    \A g \in 1..NGen :
        LET n     == Len(cuda_arch_values)
            half  == Pow2(Len(a2) - 1)
            total == half * n + half
        IN  /\ total = 2 * n + 2
            /\ total <= Pow2(Len(a2)) * Max(1, n)
            /\ Len(out[g]) <= total
            /\ Exhausted(g) => Len(out[g]) = total
            /\ (~Exhausted(g) /\ Len(out[g]) = total)
                  => Resume(gen[g], cuda_arch_values).pc = "done"
            /\ (~Exhausted(g) /\ Len(out[g]) < total)
                  => Resume(gen[g], cuda_arch_values).pc # "done"

C4_Witness ==
    \E g \in 1..NGen :
        Exhausted(g) /\ Len(cuda_arch_values) = 2 /\ Len(out[g]) = 6

C6_EmptyArch ==
    cuda_arch_values = <<>> =>
        \A g \in 1..NGen :
            /\ IsPrefix(out[g], <<PT, TT>>)
            /\ Exhausted(g) => out[g] = <<PT, TT>>
            /\ gen[g].pc \in {"start", "base", "done"}
            /\ EmittedFor(out[g], PP) = <<>>
            /\ EmittedFor(out[g], TP) = <<>>
            /\ ~Exhausted(g) => ENABLED GenNext(g)

C6_Witness ==
    \E g \in 1..NGen :
        cuda_arch_values = <<>> /\ Exhausted(g) /\ Len(out[g]) = 2 /\ Len(bases[g]) = 4

-----------------------------------------------------------------------------
(* Properties of the class bodies, checked under SpecBody *)

\* the variant constraints a spec string carries, as <<name, value>> pairs
Constraints(c) ==
    {<<c[i + 1], c[i] = "+">> : i \in {j \in 1..(Len(c) - 1) : c[j] \in {"+", "~"}}}
    \cup
    {<<"cuda_arch", c[i + 1]>> : i \in {j \in 1..(Len(c) - 1) : c[j] = " cuda_arch="}}

\* every token of one run of the generator, in closed form
AllTokens(A) ==
    LET n == Len(A)
    IN  [i \in 1..(2 * n + 2) |->
            IF i <= n THEN PP \o <<" cuda_arch=", A[i]>>
            ELSE IF i = n + 1 THEN PT
            ELSE IF i <= 2 * n + 1 THEN TP \o <<" cuda_arch=", A[i - n - 1]>>
            ELSE TT]

ForLoops == {i \in 1..Len(Body(pkg)) : Body(pkg)[i].op = "for"}

FirstLoop == CHOOSE i \in ForLoops : \A j \in ForLoops : i <= j

SecondLoop == CHOOSE i \in ForLoops : \A j \in ForLoops : j <= i

\* the (dependency, condition) pairs statement at has declared, in order
Pass(at) ==
    LET T(d) == d.at = at
        ds   == SelectSeq(dependencies, T)
    IN  [i \in 1..Len(ds) |-> [spec |-> ds[i].spec, when |-> ds[i].when]]

\* C8: each loop declares, for every generator token t and in order, a
\* dependency on amrex@develop+particles t under the condition
\* ~internal-amrex t; the mpi, cuda and cuda_arch constraints put on amrex are
\* those of the condition; and the second loop repeats the first exactly.
C8_AmrexDependencies ==
    LET T    == AllTokens(cuda_arch_values)
        want == [i \in 1..Len(T) |->
                    [spec |-> <<"amrex", "@develop", "+", "particles">> \o T[i],
                     when |-> <<"~", "internal-amrex">> \o T[i]]]
    IN  /\ \A at \in ForLoops :
              /\ IsPrefix(Pass(at), want)
              /\ pc > at => Pass(at) = want
              /\ pc < at => Pass(at) = <<>>
              /\ \A i \in 1..Len(Pass(at)) :
                    LET d == Pass(at)[i]
                    IN  /\ <<"internal-amrex", FALSE>> \in Constraints(d.when)
                        /\ <<"particles", TRUE>> \in Constraints(d.spec)
                        /\ Constraints(d.spec) \ {<<"particles", TRUE>>}
                             = Constraints(d.when) \ {<<"internal-amrex", FALSE>>}
                        /\ \E x \in Bool : <<"mpi", x>> \in Constraints(d.when)
                        /\ \E x \in Bool : <<"cuda", x>> \in Constraints(d.when)
        /\ pc > SecondLoop => Pass(FirstLoop) = Pass(SecondLoop)
        /\ Cardinality(ForLoops) = 2

C8_Witness ==
    /\ pkg = "Remora"
    /\ pc > SecondLoop
    /\ Len(cuda_arch_values) = 2
    /\ Len(Pass(SecondLoop)) = 6
    /\ Len(Pass(FirstLoop)) = 6

-----------------------------------------------------------------------------
(* Properties of a build, checked under SpecBuild *)

Chosen == phase # "class"

Selected(v) == spec.variants[v]

DeclaredConflict(c, w) ==
    {i \in 1..Len(conflictDecls) : conflictDecls[i].spec = c /\ conflictDecls[i].when = w}

CudaRocm == DeclaredConflict(<<"+", "cuda">>, <<"+", "rocm">>)

OpenmpCuda == DeclaredConflict(<<"+", "openmp">>, <<"+", "cuda">>)

\* C7: in both packages a configuration matches the conflict "CUDA and HIP
\* support are exclusive" exactly when it selects +cuda and +rocm, matches the
\* openmp/cuda conflict exactly when it selects +openmp and +cuda, and is
\* rejected as in conflict whenever it matches either.
C7_ExclusiveOptions ==
    /\ CudaRocm # {}
    /\ OpenmpCuda # {}
    /\ \A i \in CudaRocm : conflictDecls[i].msg = "CUDA and HIP support are exclusive"
    /\ Chosen =>
          /\ (Selected("cuda") /\ Selected("rocm")) <=> (CudaRocm \cap conflictsHit # {})
          /\ (Selected("cuda") /\ Selected("rocm")) <=> (CudaRocm \subseteq conflictsHit)
          /\ (Selected("openmp") /\ Selected("cuda")) <=> (OpenmpCuda \cap conflictsHit # {})
          /\ (Selected("openmp") /\ Selected("cuda")) <=> (OpenmpCuda \subseteq conflictsHit)
          /\ (CudaRocm \cup OpenmpCuda) \cap conflictsHit # {} => phase = "conflict"

C7_Witness ==
    /\ pkg = "Remora"
    /\ phase = "conflict"
    /\ Selected("cuda") /\ Selected("rocm") /\ ~Selected("openmp")
    /\ conflictsHit = CudaRocm

Named(n) == {i \in 1..Len(args) : args[i].name = n}

PKG == IF pkg = "Erf" THEN "ERF" ELSE "REMORA"

\* C9: the list cmake_args returns defines <PKG>_USE_INTERNAL_AMREX exactly
\* once, True exactly when +internal-amrex; defines AMReX_ROOT exactly when
\* ~internal-amrex; defines the six <PKG>_ENABLE_<V> from their own variants;
\* and defines AMReX_CUDA_ARCH only when +cuda.
C9_CmakeArgs ==
    phase \in {"configured", "installed"} =>
        /\ \A i \in 1..Len(args) : DOMAIN args[i] = {"name", "value"}
        /\ Cardinality(Named(<<PKG, "_USE_INTERNAL_AMREX">>)) = 1
        /\ \A i \in Named(<<PKG, "_USE_INTERNAL_AMREX">>) :
              args[i].value = Selected("internal-amrex")
        /\ (Named(<<"AMReX_ROOT">>) # {}) <=> ~Selected("internal-amrex")
        /\ \A e \in {<<"mpi", "MPI">>, <<"cuda", "CUDA">>, <<"openmp", "OPENMP">>,
                     <<"netcdf", "NETCDF">>, <<"tests", "TESTS">>,
                     <<"fortran", "FORTRAN">>} :
              /\ Named(<<PKG, "_ENABLE_", e[2]>>) # {}
              /\ \A i \in Named(<<PKG, "_ENABLE_", e[2]>>) : args[i].value = Selected(e[1])
        /\ (Named(<<"AMReX_CUDA_ARCH">>) # {}) => Selected("cuda")

C9_Witness ==
    /\ pkg = "Remora"
    /\ phase = "configured"
    /\ ~Selected("internal-amrex")
    /\ Selected("cuda")
    /\ Named(<<"AMReX_CUDA_ARCH">>) # {}
    /\ Named(<<"AMReX_ROOT">>) # {}

\* C10: for each declared value of the variant 'dimensions', libs reads the
\* value without a lookup error and searches for the library with the matching
\* suffix, and every variant name libs and cmake_args read is declared.
C10_LibsReadsDimensions ==
    /\ phase = "installed" =>
          /\ libsResult.status = "found"
          /\ libsResult.names =
                << <<"liberf.", IF Selected("dimensions") = "2" THEN "2d" ELSE "3d">> >>
    /\ phase \in {"configured", "installed"} =>
          \A i \in 1..Len(args) : "error" \notin DOMAIN args[i]

=============================================================================
